---- MODULE Spec2Model ----
(***************************************************************************)
(* Deployment Tracker API (src/app/app.py): a Flask application holding a  *)
(* module-level list `deployments`, five Prometheus metrics, a            *)
(* before_request / after_request pair and six routes.                     *)
(*                                                                         *)
(* A request is served by a worker thread.  The thread's position is       *)
(* pc[t]:                                                                  *)
(*   "idle"    no request                                                  *)
(*   "handler" before_request has run, the view function has not           *)
(*   "build"   create_deployment has its parsed body (line 146-149 done)     *)
(*   "append"  create_deployment has built its record (line 151-159 done)   *)
(*   "after"   the response exists, after_request has not run              *)
(* Spec interleaves the threads' steps; SpecSeq serves one request at a    *)
(* time.                                                                   *)
(***************************************************************************)
EXTENDS Bags, FiniteSets, Integers, Sequences, TLC

\* Number of worker threads serving requests.
NumThreads == 2
\* Number of requests received in a run of the threaded server.
MaxRequests == 2
\* Number of requests received in a run that serves one request at a time.
MaxSeqRequests == 3

Threads == 1..NumThreads

VARIABLES
    deployments,          \* app.py:62   the in-memory store
    REQUEST_COUNT,        \* app.py:29   Counter, labels (method, endpoint, status)
    REQUEST_LATENCY,      \* app.py:36   Histogram, labels (method, endpoint): observations
    ERROR_COUNT,          \* app.py:44   Counter, labels (method, endpoint, status)
    DEPLOYMENTS_CREATED,  \* app.py:51   Counter
    ACTIVE_DEPLOYMENTS,   \* app.py:56   Gauge
    clock,                \* time.time() / utcnow(): advances with every request received
    pc,                   \* per thread: position in the request cycle
    request,              \* per thread: flask.request (method, path, body)
    start_time,           \* per thread: request.start_time (app.py:71)
    data,                 \* per thread: local `data` of create_deployment
    deployment,           \* per thread: local `deployment` of create_deployment
    response              \* per thread: the response handed to after_request

vars == <<deployments, REQUEST_COUNT, REQUEST_LATENCY, ERROR_COUNT,
          DEPLOYMENTS_CREATED, ACTIVE_DEPLOYMENTS, clock, pc, request,
          start_time, data, deployment, response>>

metricVars == <<REQUEST_COUNT, REQUEST_LATENCY, ERROR_COUNT,
                DEPLOYMENTS_CREATED, ACTIVE_DEPLOYMENTS>>

-----------------------------------------------------------------------------
\* Request bodies.

Fields == {"service", "version", "environment", "deployed_by"}
Values == {"v"}
Absent == "<absent>"

\* The sets of optional fields a posted JSON object carries: none, one, two,
\* all; every field occurs both present and absent.
KeySets ==
    {{}, {"service"}, {"version", "environment"}, {"deployed_by"}, Fields}

\* A JSON object: each optional field is present with a value or absent.
Objects ==
    {o \in [Fields -> Values \cup {Absent}] :
        {f \in Fields : o[f] # Absent} \in KeySets}
EmptyObj == [f \in Fields |-> Absent]

\* The value None / JSON null.
None == [kind |-> "null", obj |-> EmptyObj]

\* Bodies sent with Content-Type: application/json.
\*   missing  no body at all          garbage  bytes that are not JSON
\*   null     the JSON value null     array    a non-empty JSON array
\*   object   a JSON object
JsonBodies ==
    {[kind |-> k, json |-> TRUE, obj |-> EmptyObj] :
        k \in {"missing", "garbage", "null", "array"}}
    \cup {[kind |-> "object", json |-> TRUE, obj |-> o] : o \in Objects}

\* Bodies sent without a JSON content type.
NonJsonBodies ==
    {[kind |-> "missing", json |-> FALSE, obj |-> EmptyObj],
     [kind |-> "object", json |-> FALSE, obj |-> [f \in Fields |-> "v"]]}

NoBody == [kind |-> "missing", json |-> FALSE, obj |-> EmptyObj]

Paths == {"/health", "/api/deployments", "/api/info", "/", "/metrics", "/nope"}

Requests ==
    {[method |-> "GET", path |-> p, body |-> NoBody] : p \in Paths}
    \cup {[method |-> "POST", path |-> "/health", body |-> NoBody]}
    \cup {[method |-> "POST", path |-> "/api/deployments", body |-> b] :
            b \in JsonBodies \cup NonJsonBodies}

NoRequest == [method |-> "", path |-> "", body |-> NoBody]

-----------------------------------------------------------------------------
\* Routing: the @app.route table.  "" stands for request.endpoint = None.

url_map(method, path) ==
    CASE path = "/health" /\ method = "GET" -> "health"
      [] path = "/api/deployments" /\ method = "GET" -> "get_deployments"
      [] path = "/api/deployments" /\ method = "POST" -> "create_deployment"
      [] path = "/api/info" /\ method = "GET" -> "info"
      [] path = "/" /\ method = "GET" -> "root"
      [] path = "/metrics" /\ method = "GET" -> "metrics"
      [] OTHER -> ""

\* Status of the routing exception: 405 for a known path, 404 otherwise.
routing_status(path) == IF path = "/nope" THEN 404 ELSE 405

-----------------------------------------------------------------------------
\* Responses.

NoResponse == [status |-> 0, kind |-> "none", body |-> [none |-> TRUE]]

\* jsonify(x) / (jsonify(x), status)
jsonify(body, status) == [status |-> status, kind |-> "json", body |-> body]

\* The framework's own error response (werkzeug's HTML error page).
http_exception(status) == [status |-> status, kind |-> "html", body |-> [none |-> TRUE]]

ErrorBody == [error |-> "Request body must be JSON"]

NoDeployment ==
    [id |-> 0, service |-> "", version |-> "", environment |-> "",
     deployed_by |-> "", timestamp |-> 0, status |-> ""]

Init ==
    /\ deployments = <<>>
    /\ REQUEST_COUNT = EmptyBag
    /\ REQUEST_LATENCY = EmptyBag
    /\ ERROR_COUNT = EmptyBag
    /\ DEPLOYMENTS_CREATED = 0
    /\ ACTIVE_DEPLOYMENTS = 0
    /\ clock = 0
    /\ pc = [t \in Threads |-> "idle"]
    /\ request = [t \in Threads |-> NoRequest]
    /\ start_time = [t \in Threads |-> 0]
    /\ data = [t \in Threads |-> None]
    /\ deployment = [t \in Threads |-> NoDeployment]
    /\ response = [t \in Threads |-> NoResponse]

-----------------------------------------------------------------------------
\* Helpers of create_deployment.

\* request.get_json() (app.py:146).  Each outcome is either a parsed value or
\* an aborted request.  Without a JSON content type the framework returns
\* None (Flask < 2.1) or aborts with 415 (Flask >= 2.1); with one, a body
\* that does not parse aborts with 400 before the view function continues.
get_json(body) ==
    IF ~body.json
    THEN {[out |-> "value", data |-> None, status |-> 0],
          [out |-> "abort", data |-> None, status |-> 415]}
    ELSE IF body.kind \in {"missing", "garbage"}
    THEN {[out |-> "abort", data |-> None, status |-> 400]}
    ELSE {[out |-> "value", data |-> [kind |-> body.kind, obj |-> body.obj],
           status |-> 0]}

\* Python truth value of the parsed body (`if not data`, app.py:148):
\* None and the empty dict are false, a non-empty list or dict is true.
Truthy(d) ==
    \/ d.kind = "array"
    \/ d.kind = "object" /\ \E f \in Fields : d.obj[f] # Absent

\* data.get(key, default)
dict_get(obj, key, default) == IF obj[key] = Absent THEN default ELSE obj[key]

\* Variant: the id is the length before the append (0-based).
NewDeployment_zero_based(obj, n, now) ==
    [id |-> n,
     service |-> dict_get(obj, "service", "unknown"),
     version |-> dict_get(obj, "version", "0.0.0"),
     environment |-> dict_get(obj, "environment", "dev"),
     deployed_by |-> dict_get(obj, "deployed_by", "manual"),
     timestamp |-> now,
     status |-> "success"]

\* The dict literal of app.py:151-159; n is len(deployments), now is utcnow().
NewDeployment(obj, n, now) ==
    [id |-> n + 1,
     service |-> dict_get(obj, "service", "unknown"),
     version |-> dict_get(obj, "version", "0.0.0"),
     environment |-> dict_get(obj, "environment", "dev"),
     deployed_by |-> dict_get(obj, "deployed_by", "manual"),
     timestamp |-> now,
     status |-> "success"]

\* request.endpoint or 'unknown' (app.py:77)
endpoint_label(req) ==
    IF url_map(req.method, req.path) = "" THEN "unknown"
    ELSE url_map(req.method, req.path)

\* counter.labels(...).inc() / histogram.labels(...).observe(...)
inc(counter, labels) == counter (+) SetToBag({labels})

\* The counter's value for a label set (0 when the child does not exist).
value(counter, labels) == CopiesIn(labels, counter)

-----------------------------------------------------------------------------
\* Steps of a request.

Endpoint(t) == url_map(request[t].method, request[t].path)

Respond(t, resp) ==
    /\ response' = [response EXCEPT ![t] = resp]
    /\ pc' = [pc EXCEPT ![t] = "after"]

\* A request arrives; @app.before_request stamps request.start_time.
before_request(t) ==
    /\ pc[t] = "idle"
    /\ \E r \in Requests : request' = [request EXCEPT ![t] = r]
    /\ clock' = clock + 1
    /\ start_time' = [start_time EXCEPT ![t] = clock + 1]
    /\ pc' = [pc EXCEPT ![t] = "handler"]
    /\ UNCHANGED <<deployments, metricVars, data, deployment, response>>

\* No rule matches: the framework answers 404 / 405 itself.
routing_exception(t) ==
    /\ pc[t] = "handler"
    /\ Endpoint(t) = ""
    /\ Respond(t, http_exception(routing_status(request[t].path)))
    /\ UNCHANGED <<deployments, metricVars, clock, request, start_time, data,
                   deployment>>

\* Variant: the health check records itself in the store.
health_logging(t) ==
    /\ pc[t] = "handler"
    /\ Endpoint(t) = "health"
    /\ deployments' = Append(deployments,
                             NewDeployment(EmptyObj, Len(deployments), clock))
    /\ Respond(t, jsonify([status |-> "healthy", hostname |-> "host",
                           version |-> "0.1.0", environment |-> "development",
                           timestamp |-> clock], 200))
    /\ UNCHANGED <<metricVars, clock, request, start_time, data, deployment>>

health(t) ==
    /\ pc[t] = "handler"
    /\ Endpoint(t) = "health"
    /\ Respond(t, jsonify([status |-> "healthy", hostname |-> "host",
                           version |-> "0.1.0", environment |-> "development",
                           timestamp |-> clock], 200))
    /\ UNCHANGED <<deployments, metricVars, clock, request, start_time, data,
                   deployment>>

get_deployments(t) ==
    /\ pc[t] = "handler"
    /\ Endpoint(t) = "get_deployments"
    /\ Respond(t, jsonify([count |-> Len(deployments),
                           deployments |-> deployments], 200))
    /\ UNCHANGED <<deployments, metricVars, clock, request, start_time, data,
                   deployment>>

\* app.py:146-149: parse the body, reject a false value.
create_deployment_get_json(t) ==
    /\ pc[t] = "handler"
    /\ Endpoint(t) = "create_deployment"
    /\ \E o \in get_json(request[t].body) :
         IF o.out = "abort"
         THEN /\ Respond(t, http_exception(o.status))
              /\ UNCHANGED data
         ELSE IF ~Truthy(o.data)
         THEN /\ Respond(t, jsonify(ErrorBody, 400))
              /\ UNCHANGED data
         ELSE /\ data' = [data EXCEPT ![t] = o.data]
              /\ pc' = [pc EXCEPT ![t] = "build"]
              /\ UNCHANGED response
    /\ UNCHANGED <<deployments, metricVars, clock, request, start_time,
                   deployment>>

\* app.py:151-159: read len(deployments) and build the record.  A parsed
\* body that is not a dict has no .get: the AttributeError becomes a 500,
\* which passes through after_request like any other response.
create_deployment_build(t) ==
    /\ pc[t] = "build"
    /\ IF data[t].kind # "object"
       THEN /\ Respond(t, http_exception(500))
            /\ UNCHANGED deployment
       ELSE /\ deployment' = [deployment EXCEPT ![t] =
                                NewDeployment(data[t].obj, Len(deployments), clock)]
            /\ pc' = [pc EXCEPT ![t] = "append"]
            /\ UNCHANGED response
    /\ UNCHANGED <<deployments, metricVars, clock, request, start_time, data>>

\* Variant: the record is inserted at the front of the list.
create_deployment_insert_front(t) ==
    /\ pc[t] = "append"
    /\ deployments' = <<deployment[t]>> \o deployments
    /\ Respond(t, jsonify(deployment[t], 201))
    /\ UNCHANGED <<metricVars, clock, request, start_time, data, deployment>>

\* app.py:161-162: append the record and answer 201.
create_deployment_append(t) ==
    /\ pc[t] = "append"
    /\ deployments' = Append(deployments, deployment[t])
    /\ Respond(t, jsonify(deployment[t], 201))
    /\ UNCHANGED <<metricVars, clock, request, start_time, data, deployment>>

info(t) ==
    /\ pc[t] = "handler"
    /\ Endpoint(t) = "info"
    /\ Respond(t, jsonify([app |-> "deployment-tracker", version |-> "0.1.0",
                           environment |-> "development", hostname |-> "host"],
                          200))
    /\ UNCHANGED <<deployments, metricVars, clock, request, start_time, data,
                   deployment>>

root(t) ==
    /\ pc[t] = "handler"
    /\ Endpoint(t) = "root"
    /\ Respond(t, jsonify([message |-> "Deployment Tracker API"], 200))
    /\ UNCHANGED <<deployments, metricVars, clock, request, start_time, data,
                   deployment>>

\* generate_latest(): the text of every metric's current samples.
generate_latest ==
    [http_requests_total |-> REQUEST_COUNT,
     http_request_duration_seconds |-> REQUEST_LATENCY,
     http_errors_total |-> ERROR_COUNT,
     deployments_created_total |-> DEPLOYMENTS_CREATED,
     active_deployments |-> ACTIVE_DEPLOYMENTS]

\* Variant: the scrape counts itself while rendering.
metrics_counting(t) ==
    /\ pc[t] = "handler"
    /\ Endpoint(t) = "metrics"
    /\ REQUEST_COUNT' = inc(REQUEST_COUNT,
                            [method |-> "GET", endpoint |-> "metrics", status |-> 200])
    /\ Respond(t, [status |-> 200, kind |-> "text", body |-> generate_latest])
    /\ UNCHANGED <<deployments, REQUEST_LATENCY, ERROR_COUNT, DEPLOYMENTS_CREATED,
                   ACTIVE_DEPLOYMENTS, clock, request, start_time, data, deployment>>

metrics(t) ==
    /\ pc[t] = "handler"
    /\ Endpoint(t) = "metrics"
    /\ Respond(t, [status |-> 200, kind |-> "text", body |-> generate_latest])
    /\ UNCHANGED <<deployments, metricVars, clock, request, start_time, data,
                   deployment>>

\* Variant: only server errors (5xx) are counted as errors.
after_request_5xx_only(t) ==
    /\ pc[t] = "after"
    /\ LET method == request[t].method
           endpoint == endpoint_label(request[t])
           status == response[t].status
           labels == [method |-> method, endpoint |-> endpoint, status |-> status]
       IN /\ REQUEST_COUNT' = inc(REQUEST_COUNT, labels)
          /\ REQUEST_LATENCY' = inc(REQUEST_LATENCY,
                                    [method |-> method, endpoint |-> endpoint])
          /\ ERROR_COUNT' = IF status >= 500 THEN inc(ERROR_COUNT, labels)
                            ELSE ERROR_COUNT
    /\ pc' = [pc EXCEPT ![t] = "idle"]
    /\ request' = [request EXCEPT ![t] = NoRequest]
    /\ start_time' = [start_time EXCEPT ![t] = 0]
    /\ data' = [data EXCEPT ![t] = None]
    /\ deployment' = [deployment EXCEPT ![t] = NoDeployment]
    /\ response' = [response EXCEPT ![t] = NoResponse]
    /\ UNCHANGED <<deployments, DEPLOYMENTS_CREATED, ACTIVE_DEPLOYMENTS, clock>>

\* @app.after_request (app.py:73-100); the request is then over.
after_request(t) ==
    /\ pc[t] = "after"
    /\ LET method == request[t].method
           endpoint == endpoint_label(request[t])
           status == response[t].status
           labels == [method |-> method, endpoint |-> endpoint, status |-> status]
       IN /\ REQUEST_COUNT' = inc(REQUEST_COUNT, labels)
          /\ REQUEST_LATENCY' = inc(REQUEST_LATENCY,
                                    [method |-> method, endpoint |-> endpoint])
          /\ ERROR_COUNT' = IF status >= 400 THEN inc(ERROR_COUNT, labels)
                            ELSE ERROR_COUNT
    /\ pc' = [pc EXCEPT ![t] = "idle"]
    /\ request' = [request EXCEPT ![t] = NoRequest]
    /\ start_time' = [start_time EXCEPT ![t] = 0]
    /\ data' = [data EXCEPT ![t] = None]
    /\ deployment' = [deployment EXCEPT ![t] = NoDeployment]
    /\ response' = [response EXCEPT ![t] = NoResponse]
    /\ UNCHANGED <<deployments, DEPLOYMENTS_CREATED, ACTIVE_DEPLOYMENTS, clock>>

\* The view function and the hooks that follow a received request.
Handle(t) ==
    \/ routing_exception(t)
    \/ health(t)
    \/ get_deployments(t)
    \/ create_deployment_get_json(t)
    \/ create_deployment_build(t)
    \/ create_deployment_append(t)
    \/ info(t)
    \/ root(t)
    \/ metrics(t)
    \/ after_request(t)

\* Threaded server (app.run serves each request in its own thread): a
\* request is received whenever a thread is free, and the steps of different
\* requests interleave.
Receive(t) == clock < MaxRequests /\ before_request(t)

Next == \E t \in Threads : Receive(t) \/ Handle(t)

Spec == Init /\ [][Next]_vars

\* One request at a time: a request is received only when no other is being
\* handled.
ReceiveSeq(t) ==
    /\ \A u \in Threads : pc[u] = "idle"
    /\ clock < MaxSeqRequests
    /\ before_request(t)

NextSeq == \E t \in Threads : ReceiveSeq(t) \/ Handle(t)

SpecSeq == Init /\ [][NextSeq]_vars

-----------------------------------------------------------------------------
\* Properties.

CreatedLabels == [method |-> "POST", endpoint |-> "create_deployment", status |-> 201]
MetricsLabels == [method |-> "GET", endpoint |-> "metrics", status |-> 200]

\* Thread t has its response and has not yet run after_request.
Answered(t, endpoint) == pc[t] = "after" /\ Endpoint(t) = endpoint

\* Thread t completes its request in this step.
Completes(t) == pc[t] = "after" /\ pc'[t] = "idle"

\* The labels after_request is to record for thread t's request.
LabelsOf(t) ==
    [method |-> request[t].method,
     endpoint |-> IF Endpoint(t) = "" THEN "unknown" ELSE Endpoint(t),
     status |-> response[t].status]

\* C1: with requests handled one at a time, after N POST /api/deployments
\* returned 201, GET /api/deployments answers 200 with count = N and a list
\* of N records, in creation order (increasing creation time), the record at
\* position k having id k.
C1_ListAfterNPosts ==
    \A t \in Threads :
        Answered(t, "get_deployments") =>
            LET body == response[t].body
                N == value(REQUEST_COUNT, CreatedLabels)
            IN /\ response[t].status = 200
               /\ body.count = N
               /\ Len(body.deployments) = N
               /\ \A k \in 1..N : body.deployments[k].id = k
               /\ \A j, k \in 1..N :
                    j < k => body.deployments[j].timestamp
                               < body.deployments[k].timestamp

\* A listing that follows two successful POSTs.
C1_Witness ==
    \E t \in Threads :
        /\ Answered(t, "get_deployments")
        /\ value(REQUEST_COUNT, CreatedLabels) = 2
        /\ response[t].body.count = 2

\* C2: with POST handlers interleaved, every record's id equals its 1-based
\* position in the list (so no two records share an id).
C2_IdsLinearized ==
    /\ \A i \in 1..Len(deployments) : deployments[i].id = i
    /\ \A i, j \in 1..Len(deployments) :
         i # j => deployments[i].id # deployments[j].id

\* C3: the deployments-created counter equals the number of records in the
\* store (it grows by one with every POST that returns 201).
C3_CreatedCounterCountsRecords == DEPLOYMENTS_CREATED = Len(deployments)

\* C4: a POST /api/deployments (sent as application/json) whose body is
\* missing or does not parse as JSON is answered 400 with the JSON body
\* {"error": "Request body must be JSON"}, and nothing is appended: the store
\* still holds exactly the records of the earlier 201 answers.
C4_BadBodyAnsweredJson400 ==
    \A t \in Threads :
        (Answered(t, "create_deployment")
            /\ request[t].body.json
            /\ request[t].body.kind \in {"missing", "garbage"}) =>
            /\ response[t].status = 400
            /\ response[t].kind = "json"
            /\ response[t].body = ErrorBody
            /\ Len(deployments) = value(REQUEST_COUNT, CreatedLabels)

\* C5: a POST /api/deployments whose JSON body is an object with any subset
\* of the optional fields, the empty one included, is answered 201 with a
\* record that echoes the present fields and defaults the absent ones.
C5_AnyObjectAnswered201 ==
    \A t \in Threads :
        (Answered(t, "create_deployment")
            /\ request[t].body.json /\ request[t].body.kind = "object") =>
            LET obj == request[t].body.obj
                rec == response[t].body
            IN /\ response[t].status = 201
               /\ response[t].kind = "json"
               /\ rec.service = (IF obj["service"] = Absent THEN "unknown"
                                 ELSE obj["service"])
               /\ rec.version = (IF obj["version"] = Absent THEN "0.0.0"
                                 ELSE obj["version"])
               /\ rec.environment = (IF obj["environment"] = Absent THEN "dev"
                                     ELSE obj["environment"])
               /\ rec.deployed_by = (IF obj["deployed_by"] = Absent THEN "manual"
                                     ELSE obj["deployed_by"])
               /\ rec.status = "success"

\* For every label set, the error count equals the request count when the
\* status is >= 400 and is 0 otherwise.
ErrorsMatchRequests ==
    \A l \in BagToSet(REQUEST_COUNT) \cup BagToSet(ERROR_COUNT) :
        value(ERROR_COUNT, l) = IF l.status >= 400 THEN value(REQUEST_COUNT, l) ELSE 0

\* A completing request adds exactly 1 to the request counter of its
\* (method, endpoint, status), "unknown" standing for an unresolved route,
\* and exactly 1 to the error counter of the same labels iff status >= 400;
\* no other step changes either counter.
CountedOnce ==
    /\ \A t \in Threads :
         Completes(t) =>
            LET l == LabelsOf(t)
                all == BagToSet(REQUEST_COUNT') \cup BagToSet(ERROR_COUNT') \cup {l}
            IN /\ \A m \in all :
                    value(REQUEST_COUNT', m)
                      = value(REQUEST_COUNT, m) + (IF m = l THEN 1 ELSE 0)
               /\ \A m \in all :
                    value(ERROR_COUNT', m)
                      = value(ERROR_COUNT, m)
                          + (IF m = l /\ l.status >= 400 THEN 1 ELSE 0)
    /\ (\A t \in Threads : ~Completes(t)) =>
          UNCHANGED <<REQUEST_COUNT, ERROR_COUNT>>

\* C6: every completed request, on any route, is counted once in the request
\* counter under (method, endpoint or "unknown", final status) and once in
\* the error counter iff the status is >= 400; hence the error count of a
\* label set equals its request count when status >= 400 and is 0 otherwise.
C6_RequestsAndErrorsCounted == []ErrorsMatchRequests /\ [][CountedOnce]_vars

\* An unresolved route was counted as an error under "unknown", and a
\* successful request was counted without an error.
C6_Witness ==
    /\ value(ERROR_COUNT, [method |-> "GET", endpoint |-> "unknown", status |-> 404]) = 1
    /\ value(REQUEST_COUNT, [method |-> "GET", endpoint |-> "health", status |-> 200]) = 1

ReadOnlyEndpoints == {"health", "info", "root"}

\* Thread t takes a step (hook or view function) of a request to one of the
\* read-only routes.
ReadOnlyStep(t) ==
    /\ pc'[t] # pc[t]
    /\ \/ Endpoint(t) \in ReadOnlyEndpoints
       \/ url_map(request'[t].method, request'[t].path) \in ReadOnlyEndpoints

\* C7: no step of a GET /health, /api/info or / request changes the store.
C7_ReadOnlyRoutesKeepStore ==
    [][\A t \in Threads : ReadOnlyStep(t) => deployments' = deployments]_vars

\* /health has answered while the store holds a record.
C7_Witness ==
    \E t \in Threads : Answered(t, "health") /\ Len(deployments) >= 1

\* Every record is accounted for by a POST /api/deployments that returned
\* 201 (completed, or answered and about to complete).
OneRecordPerCreated ==
    Len(deployments)
      = value(REQUEST_COUNT, CreatedLabels)
          + Cardinality({t \in Threads :
                Answered(t, "create_deployment") /\ response[t].status = 201})

\* A step keeps the old store as a prefix of the new one, and grows it by
\* at most one record, only in the step of a POST that is answered 201.
AppendOnlyStep ==
    /\ Len(deployments') >= Len(deployments)
    /\ Len(deployments') <= Len(deployments) + 1
    /\ SubSeq(deployments', 1, Len(deployments)) = deployments
    /\ deployments' # deployments =>
          \E t \in Threads :
             /\ pc[t] = "append"
             /\ Endpoint(t) = "create_deployment"
             /\ pc'[t] = "after"
             /\ response'[t].status = 201

\* C8: the store is append-only: each step leaves the previous contents as a
\* prefix of the new ones, and the store grows by one record per POST
\* /api/deployments answered 201 and in no other request.
C8_AppendOnly == []OneRecordPerCreated /\ [][AppendOnlyStep]_vars

\* Two records are stored.
C8_Witness == Len(deployments) = 2

\* C9: the active-deployments gauge equals the number of records in the
\* store.
C9_GaugeCountsRecords == ACTIVE_DEPLOYMENTS = Len(deployments)

\* The view function of GET /metrics renders in this step.
Renders(t) == pc[t] = "handler" /\ Endpoint(t) = "metrics" /\ pc'[t] = "after"

MetricsStep ==
    \A t \in Threads :
        /\ Renders(t) =>
              /\ UNCHANGED <<metricVars, deployments>>
              /\ response'[t].status = 200
              /\ response'[t].body.http_requests_total = REQUEST_COUNT
              /\ response'[t].body.http_errors_total = ERROR_COUNT
        /\ (Completes(t) /\ Endpoint(t) = "metrics") =>
              /\ REQUEST_COUNT' = REQUEST_COUNT (+) SetToBag({MetricsLabels})
              /\ UNCHANGED <<ERROR_COUNT, DEPLOYMENTS_CREATED, ACTIVE_DEPLOYMENTS,
                             deployments>>
              /\ value(response[t].body.http_requests_total, MetricsLabels)
                   < value(REQUEST_COUNT', MetricsLabels)

\* C10: rendering in GET /metrics changes no metric and not the store, and
\* answers 200 with the values as they were; the request's own count is
\* added by after_request only, after the text was rendered.
C10_RenderingKeepsMetrics == [][MetricsStep]_vars

\* A scrape has rendered a text that shows an earlier request.
C10_Witness ==
    \E t \in Threads :
        /\ Answered(t, "metrics")
        /\ response[t].body.http_requests_total # EmptyBag

====
